---- MODULE Spec2Model ----
(***************************************************************************)
(* Tazweed front-ends: the OWL dashboards' load / render life cycle, the   *)
(* plain-DOM pages with their polling timers, the analytics page with its  *)
(* FilterManager, and deploy.sh.                                           *)
(*                                                                         *)
(* One page holds one component (comp), chosen in Init; the actions are    *)
(* the component's handlers, the server's answers to its requests and the  *)
(* browser's timer callbacks.  deploy.sh has a specification of its own    *)
(* (SpecDeploy), and so have the TazweedDashboard of tazweed_dashboard.js  *)
(* (SpecTazweed), the employee portal's date validation (SpecForms) and    *)
(* the document center's expiry status functions (SpecExpiry).             *)
(***************************************************************************)
EXTENDS Integers, Sequences, FiniteSets, TLC

VARIABLES
    comp,       \* the component on the page
    phase,      \* "setup" | "willStart" | "mounted" | "destroyed"
    loading,    \* state.loading / state.isLoading
    data,       \* the view-state's data fields (their shape depends on comp)
    inv,        \* the invocations of the request-issuing operations, in order of start
    charts,     \* chart name -> what the canvas shows
    timeouts,   \* pending setTimeout callbacks (0: by onMounted, i: by invocation i)
    timers,     \* the active setInterval timers (their creation sites)
    mountRendered, \* onMounted has drawn the charts
    now,        \* the clock, in the unit the component reads (months, seconds)
    fm,         \* analytics page: FilterManager.activeFilters
    ad,         \* analytics page: AnalyticsDashboard (KPI card, loader, timers)
    cm,         \* analytics page: ChartManager.charts
    lastOwner,  \* analytics page: the class whose handler ran last
    sf,         \* analytics page: the saved filters of FilterManager
    command,    \* deploy.sh: the command of the current (or last) run
    pc,         \* deploy.sh: the step of the script about to run, 0 when no run is on
    exitCode,   \* deploy.sh: how the last run ended (-1: none has ended)
    runs,       \* deploy.sh: runs started so far
    service,    \* deploy.sh: the Odoo systemd service, "active" or "inactive"
    addons,     \* deploy.sh: module directory under ODOO_ADDONS -> its contents
    temp,       \* deploy.sh: the modules in TEMP_DIR after git clone
    backups,    \* deploy.sh: the archives in BACKUP_DIR, oldest first
    configured, \* deploy.sh: odoo.conf names ODOO_ADDONS in addons_path
    log,        \* deploy.sh: the last two runs (command, modules before, status)
    td,         \* the TazweedDashboard of tazweed_dashboard.js
    form,       \* employee portal: a form with date inputs
    expiry      \* document center: a days-to-expiry value and how it is shown

vars == <<comp, phase, loading, data, inv, charts, timeouts, timers, mountRendered,
          now, fm, ad, cm, lastOwner, sf,
          command, pc, exitCode, runs, service, addons, temp, backups, configured,
          log, td, form, expiry>>

\* the variables of the components that have a specification of their own
standaloneVars == <<td, form, expiry>>

\* the variables of deploy.sh
deployVars == <<command, pc, exitCode, runs, service, addons, temp, backups, configured,
                log>>

\* the variables of the browser pages
pageVars == <<phase, loading, data, inv, charts, timeouts, timers, mountRendered,
              now, fm, ad, cm, lastOwner, sf>>

\* the variables of the analytics page
analyticsVars == <<fm, ad, cm, lastOwner, sf>>

--------------------------------------------------------------------------
(* Bounds *)

\* invocations of request-issuing operations per page that a hook, a user
\* event or a timer tick starts (the initial one included)
MaxInv == 2
\* WorkflowDashboard: a user event or timer tick starts an operation only
\* while fewer than this many earlier ones are unfinished
MaxWorkflowPending == 1
\* the clock advances at most this many units
MaxClock == 1
\* analytics page: animateValue timers running at once, refreshes pending at once
MaxAnim == 2
\* deploy.sh: runs of the script
MaxRuns == 2
\* a searchCount answers 0..MaxCount
MaxCount == 2

--------------------------------------------------------------------------
(* Components *)

Payroll == "PayrollDashboard"
JobBoard == "JobBoardDashboard"
DocCenter == "DocumentCenterDashboard"
ESign == "ESignatureDashboard"
Core == "TazweedDashboard"
AlertCounter == "DocumentAlertCounter"
Workflow == "WorkflowDashboard"
Portal == "TazweedPortal"
EmpPortal == "EmployeePortal"
ClientDash == "ClientPortalDashboard"
Analytics == "AnalyticsPage"

\* OWL components that load a payload and draw charts from it
OwlDashboards == {Payroll, JobBoard, DocCenter, ESign}
\* all OWL components
OwlComponents == OwlDashboards \cup {Core, AlertCounter}
\* plain scripts started by DOMContentLoaded
PlainPages == {Workflow, Portal, EmpPortal, ClientDash, Analytics}
\* components with a loading flag in their view-state
HasLoadingFlag == OwlDashboards \cup {Core}

Components == OwlComponents \cup PlainPages

\* the components that send requests to the server
ServerComponents == Components \ {Analytics}

--------------------------------------------------------------------------
(* Payloads and view-state *)

Row(n, a) == [name |-> n, amount |-> a]

\* What the server may answer: null, or an object whose fields may be missing.
\* stats 0 stands for a missing (undefined, or zero) value.
NullPayload == [null |-> TRUE, stats |-> 0, hasRows |-> FALSE, rows |-> <<>>,
                hasTrend |-> FALSE, trend |-> <<>>]

\* An object with every field.
FullPayload == [null |-> FALSE, stats |-> 2, hasRows |-> TRUE,
                rows |-> <<Row("A", 1), Row("B", 2)>>,
                hasTrend |-> TRUE, trend |-> <<Row("Jan", 3)>>]

\* An object with empty lists and no stats.
EmptyPayload == [null |-> FALSE, stats |-> 0, hasRows |-> TRUE, rows |-> <<>>,
                 hasTrend |-> TRUE, trend |-> <<>>]

\* An object whose list fields are missing.
PartialPayload == [null |-> FALSE, stats |-> 2, hasRows |-> FALSE, rows |-> <<>>,
                   hasTrend |-> FALSE, trend |-> <<>>]

\* The answers of orm.searchCount: a number.
CountPayloads ==
    { [null |-> FALSE, stats |-> n, hasRows |-> FALSE, rows |-> <<>>,
       hasTrend |-> FALSE, trend |-> <<>>] : n \in 0..MaxCount }

Payloads(c) ==
    CASE c = Core -> CountPayloads
      [] c = Workflow -> {NullPayload, FullPayload}
      [] c \in {"TazweedPortal", "EmployeePortal", "ClientPortalDashboard",
                "DocumentAlertCounter"} ->
            {NullPayload, FullPayload, PartialPayload}
      [] OTHER -> {NullPayload, FullPayload, EmptyPayload, PartialPayload}

\* The state object built by setup(): stats 1 is the all-zero stats object.
DefaultData == [null |-> FALSE, stats |-> 1, hasRows |-> TRUE, rows |-> <<>>,
                hasTrend |-> TRUE, trend |-> <<>>]

\* The view-state after construction.
InitialData(c) ==
    CASE c \in OwlDashboards -> DefaultData
      [] c = Core -> [totalEmployees |-> 0, uaeNationals |-> 0, expiringDocs |-> 0,
                      availableEmployees |-> 0, activeContracts |-> 0,
                      activeSponsors |-> 0]
      [] c = AlertCounter -> [count |-> 0, critical |-> 0]
      [] c = Workflow -> [workflows |-> <<>>, workflowsNull |-> FALSE,
                          statsShown |-> 0, timeline |-> <<>>]
      [] c = Portal -> [notifications |-> <<>>, badge |-> 0, kpi |-> 0]
      [] c = EmpPortal -> [leaveBalance |-> 0, pendingRequests |-> 0, timeDisplay |-> -1]
      [] c = ClientDash -> [kpi |-> 0, skeleton |-> FALSE, error |-> FALSE]
      [] OTHER -> [none |-> 0]

--------------------------------------------------------------------------
(* Operations and their requests *)

\* The requests one invocation of an operation issues, in program order.
Requests(c, op) ==
    CASE c = Payroll -> <<"hr.payslip/get_payroll_dashboard_data">>
      [] c = JobBoard -> <<"job.board.analytics/get_dashboard_data">>
      [] c = DocCenter ->
            IF op = "onSyncDocuments"
            THEN <<"document.center.unified/sync_all_documents",
                   "document.center.unified/get_document_center_data">>
            ELSE <<"document.center.unified/get_document_center_data">>
      [] c = ESign -> <<"signature.request/get_dashboard_data">>
      [] c = Core -> <<"hr.employee/all", "hr.employee/is_uae_national",
                       "hr.employee/is_available", "tazweed.employee.document/expiring",
                       "tazweed.employee.sponsor/active", "hr.contract/open">>
      [] c = AlertCounter -> <<"/document/alerts/count">>
      [] c = Workflow ->
            IF op = "approveWorkflow" THEN <<"/api/workflows/id/approve">>
            ELSE <<"/api/workflows/stats", "/api/workflows/active",
                   "/api/workflows/activities">>
      [] c = Portal ->
            IF op = "refreshDashboard" THEN <<"/api/portal/dashboard">>
            ELSE <<"/api/portal/notifications">>
      [] c = EmpPortal -> <<"/my/dashboard/data">>
      [] c = ClientDash -> <<"/my/dashboard/data">>
      [] OTHER -> <<>>

\* Every request sent at once, none awaited.
FirstBurstAll(c, op) == Len(Requests(c, op))

\* How many requests an operation sends before it first waits for an answer:
\* the three fetches of WorkflowDashboard.loadDashboardData go out together,
\* every other operation awaits each request before the next.
FirstBurst(c, op) ==
    IF c = Workflow /\ op # "approveWorkflow" THEN 3 ELSE 1

\* The request-issuing handlers a user can trigger on the mounted component.
\* refreshData stands for onPeriodChange too, and onRefresh for
\* onDateRangeChange: they run the same code once the selection is stored.
\* approveWorkflow stands for rejectWorkflow too: the same promise chain on
\* the other endpoint.
UserOps(c) ==
    CASE c = Payroll -> {"refreshData"}
      [] c = JobBoard -> {"onDateRangeChange"}
      [] c = DocCenter -> {"onSyncDocuments"}
      [] c = ESign -> {"onRefresh"}
      [] c = Workflow -> {"loadDashboardData", "approveWorkflow"}
      [] c = ClientDash -> {"refreshDashboard"}
      [] OTHER -> {}

\* Whether the operation writes loading = true before its first request.
SetsLoadingAtStart(c, op) ==
    CASE c = Payroll -> op # "initial"
      [] c = JobBoard -> TRUE
      [] c = DocCenter -> op = "onSyncDocuments"
      [] c = ESign -> TRUE
      [] OTHER -> FALSE

\* Whether the handlers of the answers share one try/catch (async/await): a
\* failure then skips the rest of the operation.  The fetches of
\* WorkflowDashboard have a promise chain each.
OneTryBlock(c) == c # Workflow

\* Whether handling the answer p to request e throws (a TypeError on null or
\* on a value of the wrong shape), which the catch of the load then handles.
AssignThrows(c, e, p) ==
    CASE c \in {Payroll, DocCenter} -> p.null
      [] c = Workflow ->
            CASE e = "/api/workflows/stats" -> p.null
              [] e = "/api/workflows/active" -> p.null \/ ~p.hasRows
              [] e = "/api/workflows/activities" -> p.null \/ ~p.hasTrend
              [] OTHER -> FALSE
      [] c \in {Portal, EmpPortal} -> p.null
      [] OTHER -> FALSE

\* The data fields after the answers of an invocation have been assigned to
\* the view-state old: p answers request e, got holds the earlier answers.
AssignData(c, old, e, p, got) ==
    CASE c \in {Payroll, DocCenter} ->
            [null |-> FALSE,
             stats |-> IF p.stats # 0 THEN p.stats ELSE old.stats,
             hasRows |-> TRUE,
             rows |-> IF p.hasRows THEN p.rows ELSE <<>>,
             hasTrend |-> TRUE,
             trend |-> IF p.hasTrend THEN p.trend ELSE <<>>]
      [] c = JobBoard -> IF p.null THEN old ELSE p
      [] c = ESign -> p
      [] c = Core ->
            IF Len(got) < 5 THEN old
            ELSE [totalEmployees |-> got[1], uaeNationals |-> got[2],
                  expiringDocs |-> got[4], availableEmployees |-> got[3],
                  activeContracts |-> p.stats, activeSponsors |-> got[5]]
      [] c = AlertCounter ->
            IF p.null THEN old ELSE [count |-> p.stats, critical |-> Len(p.rows)]
      [] c = Workflow ->
            CASE e = "/api/workflows/stats" -> [old EXCEPT !.statsShown = p.stats]
              [] e = "/api/workflows/active" ->
                    [old EXCEPT !.workflows = p.rows, !.workflowsNull = FALSE]
              [] e = "/api/workflows/activities" -> [old EXCEPT !.timeline = p.trend]
              [] OTHER -> old
      [] c = Portal ->
            IF e = "/api/portal/notifications"
            THEN IF p.hasRows
                 THEN [old EXCEPT !.notifications = p.rows, !.badge = p.stats]
                 ELSE old
            ELSE IF p.stats # 0 THEN [old EXCEPT !.kpi = p.stats] ELSE old
      [] c = EmpPortal ->
            [old EXCEPT !.leaveBalance = IF p.stats # 0 THEN p.stats ELSE @,
                        !.pendingRequests = IF Len(p.rows) # 0 THEN Len(p.rows) ELSE @]
      [] c = ClientDash -> [old EXCEPT !.error = FALSE]
      [] OTHER -> old

\* Math.round(n / d * 100) for n >= 0 and d > 0: the nearest integer, a half
\* rounded up.
RoundPercent(n, d) == (200 * n + d) \div (2 * d)

\* get uaePercentage() of the TazweedDashboard of dashboard.js, on its state d
uaePercentage(d) ==
    IF d.totalEmployees = 0 THEN 0
    ELSE RoundPercent(d.uaeNationals, d.totalEmployees)

\* The data fields after the answer p to request e made the handler throw:
\* what the handler had assigned before the throw stays.
DataAfterThrow(c, old, e, p) ==
    IF c = Workflow /\ e = "/api/workflows/active"
    THEN [old EXCEPT !.workflows = <<>>, !.workflowsNull = TRUE]
    ELSE old

\* The data fields after the catch block of a load has run.
DataAfterFailure(c, old) ==
    IF c = ClientDash THEN [old EXCEPT !.error = TRUE] ELSE old

\* The loading flag keeps its value when the RPC has failed.
LoadingAfterLoadKeepsOnFailure(c, outcome, cur) ==
    IF outcome = "failed" THEN cur ELSE FALSE

\* The loading flag after a load has ended; outcome is "ok", "threw" or "failed".
LoadingAfterLoad(c, outcome, cur) ==
    IF c \in HasLoadingFlag THEN FALSE ELSE cur

\* Whether a successful load schedules a setTimeout callback of its own:
\* ESignatureDashboard's setTimeout(() => this.renderCharts(), 100), the
\* client portal's animateValue when the answer has kpis.
LoadSchedulesTimeout(c, p) ==
    \/ c = ESign
    \/ c = ClientDash /\ p.stats # 0

\* Whether the caller of the load has code after `await load()`.
HasContinuation(c, src) == c \in OwlComponents /\ src # "timer"

--------------------------------------------------------------------------
(* Charts *)

ChartNames == {"main", "trend"}

NoChart == [kind |-> "none", labels |-> <<>>, values |-> <<>>, from |-> <<>>]
NoDataMessage == [kind |-> "nodata", labels |-> <<>>, values |-> <<>>, from |-> <<>>]

MonthNames == <<"Jan", "Feb", "Mar", "Apr", "May", "Jun",
                "Jul", "Aug", "Sep", "Oct", "Nov", "Dec">>

getLast6Months(clock) ==
    [j \in 1..6 |-> MonthNames[((clock + 12 - (6 - j)) % 12) + 1]]

\* payrollData of PayrollDashboard.renderTrendChart
SampleTrend == <<450000, 465000, 480000, 475000, 490000, 510000>>

\* new Chart(ctx, {labels: rows.map(d => d.name), data: rows.map(d => d.amount)})
ChartOf(rows) ==
    [kind |-> "chart",
     labels |-> [j \in 1..Len(rows) |-> rows[j].name],
     values |-> [j \in 1..Len(rows) |-> rows[j].amount],
     from |-> rows]

\* Whether renderCharts throws on the view-state d.
RenderThrows(c, d) == c = ESign /\ (d.null \/ ~d.hasRows \/ ~d.hasTrend)

\* What the canvases show after renderCharts() has run on the view-state d.
renderCharts(c, d, clock, old) ==
    CASE c = Payroll ->
            [old EXCEPT
               !["main"] = IF Len(d.rows) = 0 THEN NoDataMessage ELSE ChartOf(d.rows),
               !["trend"] = [kind |-> "chart", labels |-> getLast6Months(clock),
                             values |-> SampleTrend, from |-> d.trend]]
      [] c = DocCenter ->
            [old EXCEPT
               !["main"] = IF Len(d.rows) = 0 THEN NoDataMessage ELSE ChartOf(d.rows),
               !["trend"] = IF Len(d.trend) = 0 THEN NoDataMessage ELSE ChartOf(d.trend)]
      [] c = JobBoard ->
            [old EXCEPT
               !["main"] = ChartOf(IF d.hasRows THEN d.rows ELSE <<>>),
               !["trend"] = ChartOf(IF d.hasTrend THEN d.trend ELSE <<>>)]
      [] c = ESign ->
            IF RenderThrows(c, d) THEN old
            ELSE [old EXCEPT !["main"] = ChartOf(d.rows), !["trend"] = ChartOf(d.trend)]
      [] OTHER -> old

\* Whether renderCharts() defers the drawing with setTimeout(..., 100).
RenderDeferred(c) == c = JobBoard

--------------------------------------------------------------------------
(* Timers *)

\* setInterval periods, in milliseconds
AlertCounterPeriod == 300000
WorkflowRefreshRate == 5000
PortalNotificationPeriod == 30000
PortalDashboardPeriod == 60000
EmployeeDashboardPeriod == 60000
CurrentTimePeriod == 1000
ClientDashboardPeriod == 300000
AnalyticsRefreshInterval == 300000
AnimateValuePeriod == 16

\* The places where the code calls setInterval.
TimerSites ==
    {"DocumentAlertCounter.setup", "WorkflowDashboard.startAutoRefresh",
     "TazweedPortal.initNotifications", "TazweedPortal.initRealTimeUpdates",
     "portal.initDashboard", "portal.initAttendance", "client.DOMContentLoaded",
     "AnalyticsDashboard.setupAutoRefresh", "AnalyticsDashboard.animateValue"}

Period(site) ==
    CASE site = "DocumentAlertCounter.setup" -> AlertCounterPeriod
      [] site = "WorkflowDashboard.startAutoRefresh" -> WorkflowRefreshRate
      [] site = "TazweedPortal.initNotifications" -> PortalNotificationPeriod
      [] site = "TazweedPortal.initRealTimeUpdates" -> PortalDashboardPeriod
      [] site = "portal.initDashboard" -> EmployeeDashboardPeriod
      [] site = "portal.initAttendance" -> CurrentTimePeriod
      [] site = "client.DOMContentLoaded" -> ClientDashboardPeriod
      [] site = "AnalyticsDashboard.setupAutoRefresh" -> AnalyticsRefreshInterval
      [] OTHER -> AnimateValuePeriod

\* The operation a timer's callback calls.
TimerOp(site) ==
    CASE site = "DocumentAlertCounter.setup" -> "loadAlertCount"
      [] site = "WorkflowDashboard.startAutoRefresh" -> "loadDashboardData"
      [] site = "TazweedPortal.initNotifications" -> "loadNotifications"
      [] site = "TazweedPortal.initRealTimeUpdates" -> "refreshDashboard"
      [] site = "portal.initDashboard" -> "refreshDashboard"
      [] site = "portal.initAttendance" -> "updateCurrentTime"
      [] site = "client.DOMContentLoaded" -> "refreshDashboard"
      [] site = "AnalyticsDashboard.setupAutoRefresh" -> "refreshDashboard"
      [] OTHER -> "animateValue.step"

\* Every timer counts as a polling timer.
PollsEverything(site) == TRUE

\* Whether the timer's callback asks the server for data (or, on the
\* analytics page, runs the simulated reload).
PollsData(site) ==
    site \notin {"portal.initAttendance", "AnalyticsDashboard.animateValue"}

\* The timers the constructor of an OWL component starts.
SetupTimers(c) == IF c = AlertCounter THEN {"DocumentAlertCounter.setup"} ELSE {}

\* The sets of timers a page's DOMContentLoaded handler can start, by the
\* elements and flags the page has.
LoadTimers(c) ==
    CASE c = Workflow -> {{"WorkflowDashboard.startAutoRefresh"}}
      [] c = Portal -> SUBSET {"TazweedPortal.initNotifications",
                               "TazweedPortal.initRealTimeUpdates"}
      [] c = EmpPortal -> SUBSET {"portal.initDashboard", "portal.initAttendance"}
      [] c = ClientDash -> {{"client.DOMContentLoaded"}}
      [] c = Analytics -> {{"AnalyticsDashboard.setupAutoRefresh",
                            "AnalyticsDashboard.animateValue"}}
      [] OTHER -> {{}}

\* The request-issuing operations the DOMContentLoaded handler calls.
LoadOps(c, started) ==
    CASE c = Workflow -> <<"loadDashboardData">>
      [] c = Portal -> IF "TazweedPortal.initNotifications" \in started
                       THEN <<"loadNotifications">> ELSE <<>>
      [] c = ClientDash -> <<"initDashboard">>
      [] OTHER -> <<>>

--------------------------------------------------------------------------
(* Invocations *)

\* One run of a request-issuing operation.  src tells what started it: a
\* life-cycle hook or the page load ("hook"), a user event ("user"), a timer
\* tick ("timer"), the success handler of another request ("success").
NewInvocation(op, src) ==
    [op |-> op, src |-> src, pc |-> "start", sent |-> <<>>, inflight |-> {},
     got |-> <<>>, failed |-> FALSE, loadDone |-> FALSE, rendered |-> FALSE]

\* fetch / orm.call / rpc: request e of invocation r goes out.
Send(r, e) == [r EXCEPT !.sent = Append(@, e), !.inflight = @ \cup {e}, !.pc = "rpc"]

RECURSIVE SendMany(_, _, _)
SendMany(r, reqs, n) ==
    IF n = 0 \/ Len(r.sent) >= Len(reqs) THEN r
    ELSE SendMany(Send(r, reqs[Len(r.sent) + 1]), reqs, n - 1)

\* The operation runs up to its first wait.
StartInvocation(c, op, src) ==
    SendMany(NewInvocation(op, src), Requests(c, op), FirstBurst(c, op))

\* The handler re-sends the request that failed.
AfterFailureRetry(c, r, e) == Send(r, e)

\* The invocation after request e has failed or its answer made the handler
\* throw: the catch block logs (or notifies) and sends nothing.
AfterFailure(c, r, e) == r

\* Whether request e is a command (sync, approve or reject) and not a data
\* load.
IsCommand(e) ==
    e \in {"document.center.unified/sync_all_documents", "/api/workflows/id/approve"}

\* Whether the operation keeps the answers in local variables until its end.
KeepsAnswer(c) == c \in {Core, ClientDash}

\* showLoading() of the client portal's initDashboard.
DataAtStart(c, old) ==
    IF c = ClientDash THEN [old EXCEPT !.skeleton = TRUE] ELSE old

\* The number of invocations that still wait for an answer.
Unfinished == Cardinality({i \in 1..Len(inv) : inv[i].pc # "done"})

\* Whether the bounds leave room for a new invocation of op.
Room(c, op) ==
    /\ Len(inv) < MaxInv
    /\ c = Workflow => Unfinished < MaxWorkflowPending

AllDone == Len(inv) >= 1 /\ \A i \in 1..Len(inv) : inv[i].pc = "done"

\* The hook starts the load and does not await it.
MountReadyNoAwait == Len(inv) >= 1

\* OWL mounts the component once the promise of onWillStart has resolved,
\* and the hook awaits the initial load.
MountReady == Len(inv) >= 1 /\ inv[1].pc = "done"

\* What renderCharts() does now: draw, or defer the drawing (tag t).
RenderNow(t, ch, to) ==
    IF RenderDeferred(comp)
    THEN /\ to' = to \cup {t}
         /\ ch' = ch
    ELSE /\ to' = to
         /\ ch' = IF phase = "mounted" THEN renderCharts(comp, data, now, ch) ELSE ch

Drawn == phase = "mounted" /\ ~RenderThrows(comp, data)

--------------------------------------------------------------------------
(* Actions of the components that talk to the server *)

\* onWillStart(async () => { await this.loadDashboardData(); })
WillStart ==
    /\ comp \in OwlComponents
    /\ phase = "setup"
    /\ phase' = "willStart"
    /\ inv' = <<StartInvocation(comp, "initial", "hook")>>
    /\ loading' = IF SetsLoadingAtStart(comp, "initial") THEN TRUE ELSE loading
    /\ UNCHANGED <<standaloneVars,
                   comp, data, charts, timeouts, timers, mountRendered, now,
                   analyticsVars, deployVars>>

\* onMounted(() => { this.renderCharts(); })
Mounted ==
    /\ comp \in OwlComponents
    /\ phase = "willStart"
    /\ MountReady
    /\ phase' = "mounted"
    /\ IF comp \notin OwlDashboards
       THEN UNCHANGED <<charts, mountRendered, timeouts>>
       ELSE IF RenderDeferred(comp)
       THEN /\ timeouts' = timeouts \cup {0}
            /\ UNCHANGED <<charts, mountRendered>>
       ELSE /\ charts' = renderCharts(comp, data, now, charts)
            /\ mountRendered' = ~RenderThrows(comp, data)
            /\ UNCHANGED timeouts
    /\ UNCHANGED <<standaloneVars,
                   comp, loading, data, inv, timers, now, analyticsVars, deployVars>>

\* The DOMContentLoaded handler of a plain page: the constructor or init
\* function runs, starts the timers and the first load.
PageLoad(started) ==
    /\ comp \in PlainPages \ {Analytics}
    /\ phase = "setup"
    /\ started \in LoadTimers(comp)
    /\ phase' = "mounted"
    /\ timers' = started
    /\ inv' = [j \in 1..Len(LoadOps(comp, started)) |->
                  StartInvocation(comp, LoadOps(comp, started)[j], "hook")]
    /\ data' = IF "portal.initAttendance" \in started
               THEN [data EXCEPT !.timeDisplay = now]
               ELSE DataAtStart(comp, data)
    /\ UNCHANGED <<standaloneVars, comp, loading, charts, timeouts, mountRendered, now,
                   analyticsVars, deployVars>>

\* A user event on the mounted component or loaded page, up to the first
\* wait of its handler.
UserEvent(op) ==
    /\ comp \in ServerComponents
    /\ phase = "mounted"
    /\ op \in UserOps(comp)
    /\ Room(comp, op)
    /\ inv' = Append(inv, StartInvocation(comp, op, "user"))
    /\ loading' = IF SetsLoadingAtStart(comp, op) THEN TRUE ELSE loading
    /\ data' = DataAtStart(comp, data)
    /\ UNCHANGED <<standaloneVars,
                   comp, phase, charts, timeouts, timers, mountRendered, now,
                   analyticsVars, deployVars>>

\* A setInterval callback runs.
Tick(site) ==
    /\ comp \in ServerComponents
    /\ site \in timers
    /\ IF TimerOp(site) = "updateCurrentTime"
       THEN /\ data' = [data EXCEPT !.timeDisplay = now]
            /\ UNCHANGED inv
       ELSE /\ Room(comp, TimerOp(site))
            /\ inv' = Append(inv, StartInvocation(comp, TimerOp(site), "timer"))
            /\ data' = DataAtStart(comp, data)
    /\ UNCHANGED <<standaloneVars,
                   comp, phase, loading, charts, timeouts, timers, mountRendered, now,
                   analyticsVars, deployVars>>

\* The answer to request e of invocation i arrives (ok: with payload p,
\* otherwise the request has failed) and the code waiting for it runs.
Respond(i, e, ok, p) ==
    /\ comp \in ServerComponents
    /\ i \in 1..Len(inv)
    /\ inv[i].pc = "rpc"
    /\ e \in inv[i].inflight
    /\ LET r == inv[i]
           reqs == Requests(comp, r.op)
           outcome == IF ~ok THEN "failed"
                      ELSE IF AssignThrows(comp, e, p) THEN "threw" ELSE "ok"
           r1 == [r EXCEPT !.inflight = @ \ {e},
                           !.got = IF KeepsAnswer(comp) /\ ok THEN Append(@, p.stats) ELSE @]
           aborted == outcome # "ok" /\ OneTryBlock(comp)
           r2 == IF outcome = "ok"
                 THEN IF OneTryBlock(comp) THEN SendMany(r1, reqs, 1) ELSE r1
                 ELSE [AfterFailure(comp, r1, e) EXCEPT
                          !.failed = @ \/ outcome = "failed"]
           finished == aborted \/ r2.inflight = {}
           endsLoad == finished /\ ~IsCommand(e)
           r3 == [r2 EXCEPT
                    !.loadDone = @ \/ endsLoad,
                    !.pc = IF ~finished THEN "rpc"
                           ELSE IF endsLoad /\ HasContinuation(comp, r.src)
                                THEN "loaded" ELSE "done"]
       IN /\ data' = CASE outcome = "ok" /\ ~IsCommand(e) ->
                              AssignData(comp, data, e, p, r.got)
                       [] outcome = "threw" -> DataAfterThrow(comp, data, e, p)
                       [] outcome = "failed" /\ ~IsCommand(e) ->
                              DataAfterFailure(comp, data)
                       [] OTHER -> data
          /\ loading' = IF endsLoad THEN LoadingAfterLoad(comp, outcome, loading)
                        ELSE IF finished /\ comp = DocCenter THEN FALSE
                        ELSE loading
          /\ timeouts' = IF outcome = "ok" /\ endsLoad /\ LoadSchedulesTimeout(comp, p)
                         THEN timeouts \cup {i} ELSE timeouts
          /\ inv' = IF comp = Workflow /\ IsCommand(e) /\ outcome = "ok"
                    THEN Append([inv EXCEPT ![i] = r3],
                                StartInvocation(comp, "loadDashboardData", "success"))
                    ELSE [inv EXCEPT ![i] = r3]
    /\ UNCHANGED <<standaloneVars,
                   comp, phase, charts, timers, mountRendered, now, analyticsVars, deployVars>>

\* The code after `await this.loadDashboardData()` in the calling hook or
\* handler.
Continue(i) ==
    /\ comp \in OwlComponents
    /\ i \in 1..Len(inv)
    /\ inv[i].pc = "loaded"
    /\ IF inv[i].op = "initial" \/ comp \notin {Payroll, JobBoard, DocCenter}
       THEN /\ inv' = [inv EXCEPT ![i].pc = "done"]
            /\ UNCHANGED <<charts, timeouts, loading>>
       ELSE /\ RenderNow(i, charts, timeouts)
            /\ inv' = [inv EXCEPT ![i].pc = "done",
                                  ![i].rendered = ~RenderDeferred(comp) /\ Drawn]
            /\ loading' = IF comp = DocCenter THEN FALSE ELSE loading
    /\ UNCHANGED <<standaloneVars,
                   comp, phase, data, timers, mountRendered, now, analyticsVars, deployVars>>

\* A setTimeout callback runs: the deferred renderCharts of a dashboard, or
\* the client portal's animateValue writing the KPI value.
Timeout(t) ==
    /\ comp \in OwlDashboards \cup {ClientDash}
    /\ t \in timeouts
    /\ timeouts' = timeouts \ {t}
    /\ IF comp = ClientDash
       THEN /\ data' = [data EXCEPT !.kpi = inv[t].got[Len(inv[t].got)],
                                    !.skeleton = FALSE]
            /\ UNCHANGED <<charts, inv, mountRendered>>
       ELSE /\ charts' = IF phase = "mounted"
                         THEN renderCharts(comp, data, now, charts) ELSE charts
            /\ UNCHANGED data
            /\ IF t = 0
               THEN /\ mountRendered' = (mountRendered \/ Drawn)
                    /\ UNCHANGED inv
               ELSE /\ inv' = [inv EXCEPT ![t].rendered = @ \/ Drawn]
                    /\ UNCHANGED mountRendered
    /\ UNCHANGED <<standaloneVars,
                   comp, phase, loading, timers, now, analyticsVars, deployVars>>

\* Navigation away: OWL destroys the component (onWillUnmount of
\* JobBoardDashboard: destroyCharts).  No component clears a timer here.
Unmount ==
    /\ comp \in OwlComponents
    /\ phase = "mounted"
    /\ phase' = "destroyed"
    /\ charts' = IF comp = JobBoard THEN [c \in ChartNames |-> NoChart] ELSE charts
    /\ UNCHANGED <<standaloneVars,
                   comp, loading, data, inv, timeouts, timers, mountRendered, now,
                   analyticsVars, deployVars>>

\* destroy() had stopAutoRefresh() not cleared the interval.
DestroyKeepsTimer ==
    /\ comp = Workflow
    /\ phase = "mounted"
    /\ phase' = "destroyed"
    /\ UNCHANGED <<standaloneVars, comp, loading, data, inv, charts, timeouts, timers,
                   mountRendered, now, analyticsVars, deployVars>>

\* beforeunload: window.workflowDashboard.destroy(), i.e. stopAutoRefresh().
Destroy ==
    /\ comp = Workflow
    /\ phase = "mounted"
    /\ phase' = "destroyed"
    /\ timers' = timers \ {"WorkflowDashboard.startAutoRefresh"}
    /\ UNCHANGED <<standaloneVars,
                   comp, loading, data, inv, charts, timeouts, mountRendered, now,
                   analyticsVars, deployVars>>

\* Time passes, on the pages that read the clock.
ClockTick ==
    /\ comp \in {Payroll, EmpPortal}
    /\ now < MaxClock
    /\ now' = now + 1
    /\ UNCHANGED <<standaloneVars,
                   comp, phase, loading, data, inv, charts, timeouts, timers,
                   mountRendered, analyticsVars, deployVars>>

--------------------------------------------------------------------------
(* The analytics page: AnalyticsDashboard, ChartManager, FilterManager *)

FilterValues == {"", "HR"}

ChartIds == {"chart1"}

\* new FilterManager(): this.activeFilters = {}
NoFilters == [department |-> "", status |-> ""]

\* The names a saved filter set can have.
SavedNames == {"mine"}

\* The saved filter sets before any is saved: storage is localStorage's
\* analyticsFilters, snapshot the object loadSavedFilters parsed from it (its
\* keys are the options of the select), alias the key of snapshot whose value
\* this.activeFilters refers to ("": none), op the last FilterManager call.
NoSaved ==
    [storage |-> [n \in SavedNames |-> [saved |-> FALSE, filters |-> NoFilters]],
     snapshot |-> [n \in SavedNames |-> [saved |-> FALSE, filters |-> NoFilters]],
     alias |-> "", op |-> ""]

\* The page before DOMContentLoaded.
NoDashboard == [kpi |-> "static", anim |-> 0, loader |-> FALSE, pending |-> 0]

\* AnalyticsDashboard.loadDashboardData(): updateKPICards starts an
\* animateValue timer on the KPI card's value element.
loadDashboardData(a) == [a EXCEPT !.kpi = "animating", !.anim = @ + 1]

\* AnalyticsDashboard.refreshDashboard(): showLoadingState, then
\* setTimeout(() => { loadDashboardData(); hideLoadingState(); ... }, 1000).
refreshDashboard(a) == [a EXCEPT !.loader = TRUE, !.pending = @ + 1]

\* ChartManager.updateChart(chartId, newData): chart.updateData(newData).
updateChart(c, chartId, newData) == [c EXCEPT !.charts[chartId] = newData]

\* FilterManager.getFilteredData(chartId)
getFilteredData(chartId) == "Filtered Data"

\* ChartManager.generateMockData(chartType)
generateMockData(chartId) == "Payroll"

\* applyFilters asks the dashboard for a refresh.
DashboardAfterFiltersRefresh(a) == refreshDashboard(a)

\* applyFilters: if (window.analyticsDashboard) loadDashboardData().
DashboardAfterFilters(a) == loadDashboardData(a)

\* applyFilters: window.chartManager.updateChart(chartId, getFilteredData(chartId))
\* for every chart; a ChartManager without updateChart makes the call throw.
ChartsAfterFilters(c) ==
    IF c.hasUpdateChart
    THEN [c EXCEPT !.charts = [id \in ChartIds |-> getFilteredData(id)]]
    ELSE c

\* The timers of the page, given the dashboard's state.
AnalyticsTimers(a) ==
    {"AnalyticsDashboard.setupAutoRefresh"} \cup
    (IF a.anim > 0 THEN {"AnalyticsDashboard.animateValue"} ELSE {})

\* DOMContentLoaded: new AnalyticsDashboard(), new ChartManager(),
\* new FilterManager().  The ChartManager of the page has updateChart or not.
AnalyticsLoad(hasUpdate) ==
    /\ comp = Analytics
    /\ phase = "setup"
    /\ phase' = "mounted"
    /\ ad' = loadDashboardData(NoDashboard)
    /\ cm' = [hasUpdateChart |-> hasUpdate,
              charts |-> [id \in ChartIds |-> generateMockData(id)]]
    /\ fm' = NoFilters
    /\ sf' = [sf EXCEPT !.snapshot = sf.storage, !.op = "loadSavedFilters"]
    /\ lastOwner' = "page"
    /\ timers' = AnalyticsTimers(ad')
    /\ UNCHANGED <<standaloneVars,
                   comp, loading, data, inv, charts, timeouts, mountRendered, now,
                   deployVars>>

\* The object savedFilters after a handler has written its filter into
\* this.activeFilters, which became f: the listener of loadSavedFilters
\* assigned savedFilters[name] itself, not a copy, so the write lands there.
Written(saved, f) ==
    IF saved.alias = "" THEN saved.snapshot
    ELSE [saved.snapshot EXCEPT ![saved.alias].filters = f]

\* FilterManager.applyDepartmentFilter / applyStatusFilter / resetFilters,
\* each ending in applyFilters().
FilterOp(op, v) ==
    /\ comp = Analytics
    /\ phase = "mounted"
    /\ ad.anim < MaxAnim
    /\ fm' = CASE op = "applyDepartmentFilter" -> [fm EXCEPT !.department = v]
               [] op = "applyStatusFilter" -> [fm EXCEPT !.status = v]
               [] OTHER -> NoFilters
    /\ sf' = IF op = "resetFilters"
             THEN [sf EXCEPT !.alias = "", !.op = op]
             ELSE [sf EXCEPT !.snapshot = Written(sf, fm'), !.op = op]
    /\ ad' = DashboardAfterFilters(ad)
    /\ cm' = ChartsAfterFilters(cm)
    /\ lastOwner' = "FilterManager"
    /\ timers' = AnalyticsTimers(ad')
    /\ UNCHANGED <<standaloneVars,
                   comp, phase, loading, data, inv, charts, timeouts, mountRendered, now,
                   deployVars>>

\* FilterManager.saveFilters(), the prompt answered with name: the active
\* filters are written to localStorage under it.
saveFilters(name) ==
    /\ comp = Analytics
    /\ phase = "mounted"
    /\ sf' = [sf EXCEPT !.storage[name] = [saved |-> TRUE, filters |-> fm],
                        !.op = "saveFilters"]
    /\ lastOwner' = "FilterManager"
    /\ UNCHANGED <<standaloneVars, comp, phase, loading, data, inv, charts, timeouts,
                   timers, mountRendered, now, fm, ad, cm, deployVars>>

\* The change listener that loadSavedFilters put on the select, for the
\* option name: this.activeFilters = savedFilters[name]; this.applyFilters().
selectSaved(name) ==
    /\ comp = Analytics
    /\ phase = "mounted"
    /\ ad.anim < MaxAnim
    /\ sf.snapshot[name].saved
    /\ fm' = sf.snapshot[name].filters
    /\ sf' = [sf EXCEPT !.alias = name, !.op = "selectSaved"]
    /\ ad' = DashboardAfterFilters(ad)
    /\ cm' = ChartsAfterFilters(cm)
    /\ lastOwner' = "FilterManager"
    /\ timers' = AnalyticsTimers(ad')
    /\ UNCHANGED <<standaloneVars, comp, phase, loading, data, inv, charts, timeouts,
                   mountRendered, now, deployVars>>

\* AnalyticsDashboard.refreshDashboard by the refresh button, or
\* changePeriod / applyFilter, which reload at once.
DashboardOp(op) ==
    /\ comp = Analytics
    /\ phase = "mounted"
    /\ IF op = "refreshDashboard"
       THEN /\ ad.pending < MaxAnim
            /\ ad' = refreshDashboard(ad)
       ELSE /\ ad.anim < MaxAnim
            /\ ad' = loadDashboardData(ad)
    /\ lastOwner' = "AnalyticsDashboard"
    /\ timers' = AnalyticsTimers(ad')
    /\ UNCHANGED <<standaloneVars,
                   comp, phase, loading, data, inv, charts, timeouts, mountRendered,
                   now, fm, cm, sf, deployVars>>

\* A timer of the analytics page fires: the auto-refresh calls
\* refreshDashboard; a step of animateValue writes the KPI text and, when
\* the value has reached its end (done), clears its own timer.
AnalyticsTick(site, done) ==
    /\ comp = Analytics
    /\ site \in timers
    /\ IF site = "AnalyticsDashboard.setupAutoRefresh"
       THEN /\ ad.pending < MaxAnim
            /\ ad' = refreshDashboard(ad)
       ELSE ad' = IF done
                  THEN [ad EXCEPT !.anim = @ - 1, !.kpi = "final"]
                  ELSE [ad EXCEPT !.kpi = "animating"]
    /\ lastOwner' = "AnalyticsDashboard"
    /\ timers' = AnalyticsTimers(ad')
    /\ UNCHANGED <<standaloneVars,
                   comp, phase, loading, data, inv, charts, timeouts, mountRendered,
                   now, fm, cm, sf, deployVars>>

\* The setTimeout callback of refreshDashboard.
RefreshTimeout ==
    /\ comp = Analytics
    /\ ad.pending > 0
    /\ ad.anim < MaxAnim
    /\ ad' = loadDashboardData([ad EXCEPT !.pending = @ - 1, !.loader = FALSE])
    /\ lastOwner' = "AnalyticsDashboard"
    /\ timers' = AnalyticsTimers(ad')
    /\ UNCHANGED <<standaloneVars,
                   comp, phase, loading, data, inv, charts, timeouts, mountRendered,
                   now, fm, cm, sf, deployVars>>

--------------------------------------------------------------------------
(* The TazweedDashboard of tazweed_dashboard.js *)

\* refreshData is started at most this many times
MaxRefresh == 1
\* hr.employee holds at most this many active employees
MaxEmployees == 2

\* The canvases of the template, by their t-ref.
TdCanvases == {"visaChart", "categoryChart", "departmentChart", "placementChart",
               "documentChart", "trendChart"}

\* the keys of visaStatuses and of placementStatuses in prepareChartData
VisaStatuses == {"valid", "expired", "cancelled", "in_process"}
PlacementStatuses == {"available", "placed", "on_leave", "resigned"}
\* the department names a row may carry; "" is department_id === false
DeptNames == {"Operations", "Unassigned"}

\* The rows searchRead may return for hr.employee: a status may be one of the
\* keys, missing ("") or a value that is not a key.
EmployeeRows ==
    { [is_uae_national |-> TRUE, visa_status |-> "valid",
       placement_status |-> "placed", department_id |-> "Operations"],
      [is_uae_national |-> FALSE, visa_status |-> "expired",
       placement_status |-> "on_leave", department_id |-> ""],
      [is_uae_national |-> FALSE, visa_status |-> "",
       placement_status |-> "", department_id |-> "Unassigned"],
      [is_uae_national |-> TRUE, visa_status |-> "pending",
       placement_status |-> "terminated", department_id |-> "Operations"] }

EmployeeLists == UNION { [1..n -> EmployeeRows] : n \in 0..MaxEmployees }

\* employees.filter(e => ...).length, kept being the rows the test accepts
CountRows(employees, kept) ==
    Cardinality({ j \in 1..Len(employees) : employees[j] \in kept })

\* visaStatuses[key] had the forEach no else branch: an employee without a
\* known visa status is counted nowhere.
visaStatusesKeyedOnly(employees, key) ==
    LET Keyed == { e \in EmployeeRows : e.visa_status = key }
    IN  CountRows(employees, Keyed)

\* visaStatuses[key] after the forEach of prepareChartData
visaStatuses(employees, key) ==
    LET Keyed == { e \in EmployeeRows : e.visa_status = key }
        Defaulted == { e \in EmployeeRows : e.visa_status \notin VisaStatuses }
    IN  CountRows(employees, Keyed)
          + (IF key = "valid" THEN CountRows(employees, Defaulted) ELSE 0)

\* placementStatuses[key] after the forEach of prepareChartData
placementStatuses(employees, key) ==
    LET Keyed == { e \in EmployeeRows : e.placement_status = key }
        Defaulted == { e \in EmployeeRows : e.placement_status \notin PlacementStatuses }
    IN  CountRows(employees, Keyed)
          + (IF key = "available" THEN CountRows(employees, Defaulted) ELSE 0)

\* deptCount[name] after the forEach of prepareChartData (0: no such key)
deptCount(employees, name) ==
    LET Named == { e \in EmployeeRows :
                     (IF e.department_id # "" THEN e.department_id ELSE "Unassigned")
                        = name }
    IN  CountRows(employees, Named)

\* The chart data prepareChartData(employees, documents, categories) stores.
prepareChartData(employees) ==
    [visaStatusData |-> [k \in VisaStatuses |-> visaStatuses(employees, k)],
     departmentData |-> [n \in DeptNames |-> deptCount(employees, n)],
     placementData |-> [k \in PlacementStatuses |-> placementStatuses(employees, k)]]

\* The state written by the try block of loadDashboardData from the employee
\* rows (the fields computed from the other four lists are left out).
TdLoaded(employees) ==
    LET IsNational == { e \in EmployeeRows : e.is_uae_national }
        IsPlaced == { e \in EmployeeRows : e.placement_status = "placed" }
        total == Len(employees)
        nationals == CountRows(employees, IsNational)
        chart == prepareChartData(employees)
    IN  [totalEmployees |-> total,
         uaeNationals |-> nationals,
         uaeNationalPercent |-> IF total > 0 THEN RoundPercent(nationals, total) ELSE 0,
         placedEmployees |-> CountRows(employees, IsPlaced),
         visaStatusData |-> chart.visaStatusData,
         departmentData |-> chart.departmentData,
         placementData |-> chart.placementData,
         isLoading |-> FALSE]

\* useState({...}) of setup(): the chart data objects are empty.
TdInitialState ==
    [totalEmployees |-> 0, uaeNationals |-> 0, uaeNationalPercent |-> 0,
     placedEmployees |-> 0,
     visaStatusData |-> [k \in VisaStatuses |-> 0],
     departmentData |-> [n \in DeptNames |-> 0],
     placementData |-> [k \in PlacementStatuses |-> 0],
     isLoading |-> TRUE]

\* The component before a page shows it.  reuse is what the Chart.js of the
\* page does with `new Chart` on a canvas that has a chart: "stacks" (2.x:
\* a second instance) or "throws" (3 and later).  refs are the canvases the
\* template binds.
NoTazweed ==
    [phase |-> "none", state |-> TdInitialState, loads |-> <<>>,
     live |-> [c \in TdCanvases |-> 0], succeeded |-> 0,
     reuse |-> "stacks", refs |-> {}]

\* renderCharts(): the six render functions in turn, each `new Chart` on its
\* canvas when the ref is bound; no instance is kept and none is destroyed.
\* An exception of the first `new Chart` leaves the function.
TdRenderCharts(t) ==
    IF t.reuse = "throws" /\ \E c \in t.refs : t.live[c] > 0
    THEN t.live
    ELSE [c \in TdCanvases |-> IF c \in t.refs THEN t.live[c] + 1 ELSE t.live[c]]

\* onWillStart(async () => { await this.loadDashboardData(); })
TdWillStart ==
    /\ td.phase = "setup"
    /\ td' = [td EXCEPT !.phase = "willStart",
                        !.loads = <<[op |-> "initial", pc |-> "loading"]>>]
    /\ UNCHANGED <<comp, pageVars, deployVars, form, expiry>>

\* The five searchReads of invocation i have answered and the try block
\* runs: nothing is written to the state before the last answer.
TdLoadSucceeds(i, employees) ==
    /\ i \in 1..Len(td.loads)
    /\ td.loads[i].pc = "loading"
    /\ td' = [td EXCEPT !.state = TdLoaded(employees),
                        !.loads[i].pc = "loaded",
                        !.succeeded = 1]
    /\ UNCHANGED <<comp, pageVars, deployVars, form, expiry>>

\* One of the searchReads of invocation i is rejected: the catch block.
TdLoadFails(i) ==
    /\ i \in 1..Len(td.loads)
    /\ td.loads[i].pc = "loading"
    /\ td' = [td EXCEPT !.state.isLoading = FALSE,
                        !.loads[i].pc = "loaded"]
    /\ UNCHANGED <<comp, pageVars, deployVars, form, expiry>>

\* onMounted(() => { this.renderCharts(); })
TdMounted ==
    /\ td.phase = "willStart"
    /\ td.loads[1].pc = "loaded"
    /\ td' = [td EXCEPT !.phase = "mounted",
                        !.loads[1].pc = "done",
                        !.live = TdRenderCharts(td)]
    /\ UNCHANGED <<comp, pageVars, deployVars, form, expiry>>

\* refreshData(), up to its await.
TdRefreshData ==
    /\ td.phase = "mounted"
    /\ Len(td.loads) <= MaxRefresh
    /\ td' = [td EXCEPT !.state.isLoading = TRUE,
                        !.loads = Append(@, [op |-> "refreshData", pc |-> "loading"])]
    /\ UNCHANGED <<comp, pageVars, deployVars, form, expiry>>

\* refreshData() after `await this.loadDashboardData()`: this.renderCharts().
TdRefreshRenders(i) ==
    /\ i \in 1..Len(td.loads)
    /\ td.loads[i].op = "refreshData"
    /\ td.loads[i].pc = "loaded"
    /\ td' = [td EXCEPT !.loads[i].pc = "done",
                        !.live = TdRenderCharts(td)]
    /\ UNCHANGED <<comp, pageVars, deployVars, form, expiry>>

--------------------------------------------------------------------------
(* The employee portal's forms: validateDateRange of portal.js *)

\* the dates a date input can hold are the days 1..MaxDate
MaxDate == 9

\* The value of an input[type="date"]: 0 is the empty string, d > 0 the
\* yyyy-mm-dd string of day d.
DateValues == 0..MaxDate

\* new Date(value).getTime() of a non-empty value, in milliseconds
DateOf(value) == value * 86400000

\* No page with a form.
NoForm == [inForm |-> FALSE, date_from |-> 0, date_to |-> 0, notified |-> FALSE,
           handled |-> FALSE]

\* validateDateRange(e) had it only reported the error.
validateDateRangeNotifyOnly(f) ==
    IF /\ f.inForm /\ f.date_from # 0 /\ f.date_to # 0
       /\ DateOf(f.date_to) < DateOf(f.date_from)
    THEN [f EXCEPT !.notified = TRUE, !.handled = TRUE]
    ELSE [f EXCEPT !.notified = FALSE, !.handled = TRUE]

\* validateDateRange(e) on the form f of the changed input: notified tells
\* whether this call has shown the error notification.
validateDateRange(f) ==
    IF /\ f.inForm /\ f.date_from # 0 /\ f.date_to # 0
       /\ DateOf(f.date_to) < DateOf(f.date_from)
    THEN [f EXCEPT !.notified = TRUE, !.date_to = f.date_from, !.handled = TRUE]
    ELSE [f EXCEPT !.notified = FALSE, !.handled = TRUE]

\* The user changes a date input: the browser stores the value and the change
\* listener of initForms runs.
ChangeDate(name, value) ==
    /\ form[name] # value
    /\ form' = validateDateRange([form EXCEPT ![name] = value])
    /\ UNCHANGED <<comp, pageVars, deployVars, td, expiry>>

--------------------------------------------------------------------------
(* The document center's expiry status: document_dashboard.js and its copy *)

\* days_to_expiry is a number in -MaxDays..MaxDays, or is missing
MaxDays == 45

\* The values passed as days: a number n, or undefined (isNumber FALSE), for
\* which every comparison is false.  null compares as the number 0.
DaysValues ==
    { [isNumber |-> TRUE, n |-> k] : k \in -MaxDays..MaxDays }
      \cup { [isNumber |-> FALSE, n |-> 0] }

\* days < bound and days <= bound of JavaScript
Less(days, bound) == days.isNumber /\ days.n < bound
AtMost(days, bound) == days.isNumber /\ days.n <= bound

\* getExpiryStatusColor had its yellow bucket ended at 14.
getExpiryStatusColorOff(days) ==
    CASE Less(days, 0) -> "#dc3545"
      [] AtMost(days, 7) -> "#fd7e14"
      [] AtMost(days, 14) -> "#ffc107"
      [] AtMost(days, 30) -> "#17a2b8"
      [] OTHER -> "#28a745"

\* document_dashboard.js
getExpiryStatusClass(days) ==
    IF Less(days, 0) THEN "expired"
    ELSE IF AtMost(days, 7) THEN "critical"
    ELSE IF AtMost(days, 15) THEN "warning"
    ELSE IF AtMost(days, 30) THEN "attention"
    ELSE "valid"

getExpiryStatusColor(days) ==
    IF Less(days, 0) THEN "#dc3545"
    ELSE IF AtMost(days, 7) THEN "#fd7e14"
    ELSE IF AtMost(days, 15) THEN "#ffc107"
    ELSE IF AtMost(days, 30) THEN "#17a2b8"
    ELSE "#28a745"

\* the copy in unnamed/part_002
getExpiryStatusClassCopy(days) ==
    IF Less(days, 0) THEN "expired"
    ELSE IF AtMost(days, 7) THEN "critical"
    ELSE IF AtMost(days, 15) THEN "warning"
    ELSE IF AtMost(days, 30) THEN "attention"
    ELSE "valid"

getExpiryStatusColorCopy(days) ==
    IF Less(days, 0) THEN "#dc3545"
    ELSE IF AtMost(days, 7) THEN "#fd7e14"
    ELSE IF AtMost(days, 15) THEN "#ffc107"
    ELSE IF AtMost(days, 30) THEN "#17a2b8"
    ELSE "#28a745"

\* No document row.
NoExpiry == [days |-> [isNumber |-> FALSE, n |-> 0], shown |-> FALSE,
             class |-> "", color |-> "", classCopy |-> "", colorCopy |-> ""]

\* A document row is drawn: the four functions are applied to its days.
ShowExpiry ==
    /\ ~expiry.shown
    /\ expiry' = [expiry EXCEPT !.shown = TRUE,
                                !.class = getExpiryStatusClass(expiry.days),
                                !.color = getExpiryStatusColor(expiry.days),
                                !.classCopy = getExpiryStatusClassCopy(expiry.days),
                                !.colorCopy = getExpiryStatusColorCopy(expiry.days)]
    /\ UNCHANGED <<comp, pageVars, deployVars, td, form>>

\* The row's document gets another expiry date.
ChangeExpiry(days) ==
    /\ expiry.shown
    /\ expiry' = [NoExpiry EXCEPT !.days = days]
    /\ UNCHANGED <<comp, pageVars, deployVars, td, form>>

--------------------------------------------------------------------------
(* deploy.sh *)

\* Two of the eight module directories the script names; tazweed_core is the
\* one create_backup tests.
ModuleList == <<"tazweed_core", "tazweed_payroll">>

Modules == {ModuleList[j] : j \in 1..Len(ModuleList)}

\* The contents of a module directory: absent, the installed version, the
\* version of the repository's branch, the version before the installed one.
Absent == "absent"
Installed == "installed"
Repository == "repository"
Older == "older"

Commands == {"deploy", "quick", "rollback"}

\* deploy_code, a step for the clone, for every module of the loop and for
\* the permissions.
DeployCodeSteps ==
    <<<<"deploy_code", "clone">>>> \o
    [j \in 1..Len(ModuleList) |-> <<"deploy_code", ModuleList[j]>>] \o
    <<<<"deploy_code", "permissions">>>>

\* A script that replaces the code before it stops the service.
ScriptCodeFirst(cmd, git) ==
    <<<<"check_root", "">>>> \o DeployCodeSteps \o
    <<<<"stop_odoo", "">>, <<"start_odoo", "">>>>

\* main: the steps of a command, in the order the script runs them.  git
\* tells whether ODOO_ADDONS is a git work tree (quick_deploy).
Script(cmd, git) ==
    CASE cmd = "deploy" ->
            <<<<"check_root", "">>, <<"pre_checks", "">>, <<"create_backup", "">>,
              <<"stop_odoo", "">>>> \o DeployCodeSteps \o
            <<<<"update_config", "">>, <<"start_odoo", "">>, <<"health_check", "">>,
              <<"update_modules", "">>>>
      [] cmd = "quick" ->
            <<<<"check_root", "">>, <<"stop_odoo", "">>>> \o
            (IF git THEN <<<<"quick_deploy", "reset">>>> ELSE DeployCodeSteps) \o
            <<<<"start_odoo", "">>, <<"health_check", "">>>>
      [] OTHER ->
            <<<<"check_root", "">>, <<"rollback", "find">>, <<"stop_odoo", "">>,
              <<"rollback", "remove">>, <<"rollback", "extract">>,
              <<"rollback", "chown">>, <<"start_odoo", "">>>>

\* Whether ODOO_ADDONS is a git work tree: it has a .git directory.
IsGit == addons[".git"] # Absent

\* The step about to run.
Current == Script(command, IsGit)[pc]

\* The functions of the current run that have returned.
Completed == {Script(command, IsGit)[j][1] : j \in 1..(pc - 1)} \
             (IF pc \in 1..Len(Script(command, IsGit)) THEN {Current[1]} ELSE {})

\* The step has run: on to the next one, or the script ends with status 0.
Advance ==
    IF pc < Len(Script(command, IsGit))
    THEN /\ pc' = pc + 1
         /\ UNCHANGED <<exitCode, log>>
    ELSE /\ pc' = 0
         /\ exitCode' = 0
         /\ log' = [log EXCEPT ![Len(log)].exitCode = 0]

\* set -e, or an explicit exit 1: the script ends here.
Abort ==
    /\ pc' = 0
    /\ exitCode' = 1
    /\ log' = [log EXCEPT ![Len(log)].exitCode = 1]

\* At(fn, part): the run is about to execute that step.
At(fn, part) == pc > 0 /\ Current = <<fn, part>>

\* ./deploy.sh <cmd>
Run(cmd) ==
    /\ comp = "deploy.sh"
    /\ pc = 0
    /\ runs < MaxRuns
    /\ runs' = runs + 1
    /\ command' = cmd
    /\ pc' = 1
    /\ log' = Append(IF Len(log) < 2 THEN log ELSE Tail(log),
                     [command |-> cmd, before |-> [m \in Modules |-> addons[m]],
                      exitCode |-> -1])
    /\ UNCHANGED <<standaloneVars,
                   comp, pageVars, exitCode, service, addons, temp, backups, configured>>

\* check_root: exit 1 unless EUID is 0.
check_root(root) ==
    /\ At("check_root", "")
    /\ IF root THEN Advance ELSE Abort
    /\ UNCHANGED <<standaloneVars,
                   comp, pageVars, command, runs, service, addons, temp, backups, configured>>

\* pre_checks: exit 1 without git; mkdir -p BACKUP_DIR.
pre_checks(ok) ==
    /\ At("pre_checks", "")
    /\ IF ok THEN Advance ELSE Abort
    /\ UNCHANGED <<standaloneVars,
                   comp, pageVars, command, runs, service, addons, temp, backups, configured>>

\* tar -czf BACKUP_FILE: the archive named after the time of the run, holding
\* the module directories that exist.
Archive(stamp, dirs) == [stamp |-> stamp, files |-> [m \in Modules |-> dirs[m]]]

\* create_backup: if tazweed_core exists, tar the module directories
\* (`|| true`: a failing tar does not end the script, written tells whether
\* it left an archive); otherwise only a warning.
create_backup(written) ==
    /\ At("create_backup", "")
    /\ backups' = IF addons["tazweed_core"] # Absent /\ written
                  THEN Append(backups, Archive(runs, addons))
                  ELSE backups
    /\ Advance
    /\ UNCHANGED <<standaloneVars,
                   comp, pageVars, command, runs, service, addons, temp, configured>>

\* stop_odoo: systemctl stop if the service is active.
stop_odoo(ok) ==
    /\ At("stop_odoo", "")
    /\ IF service = "active"
       THEN IF ok THEN service' = "inactive" /\ Advance
                  ELSE UNCHANGED service /\ Abort
       ELSE UNCHANGED service /\ Advance
    /\ UNCHANGED <<standaloneVars,
                   comp, pageVars, command, runs, addons, temp, backups, configured>>

\* deploy_code: git clone into TEMP_DIR; found is what the clone holds.
deploy_code_clone(ok, found) ==
    /\ At("deploy_code", "clone")
    /\ IF ok THEN temp' = found /\ Advance
             ELSE UNCHANGED temp /\ Abort
    /\ UNCHANGED <<standaloneVars,
                   comp, pageVars, command, runs, service, addons, backups, configured>>

\* deploy_code, one round of the loop: rm -rf the module, cp -r it from the
\* clone (a failing cp ends the script after the rm).
deploy_code_module(m, ok) ==
    /\ At("deploy_code", m)
    /\ IF m \in temp
       THEN IF ok THEN addons' = [addons EXCEPT ![m] = Repository] /\ Advance
                  ELSE addons' = [addons EXCEPT ![m] = Absent] /\ Abort
       ELSE UNCHANGED addons /\ Advance
    /\ UNCHANGED <<standaloneVars,
                   comp, pageVars, command, runs, service, temp, backups, configured>>

\* deploy_code: chown, chmod, rm -rf TEMP_DIR.
deploy_code_permissions(ok) ==
    /\ At("deploy_code", "permissions")
    /\ IF ok THEN temp' = {} /\ Advance
             ELSE UNCHANGED temp /\ Abort
    /\ UNCHANGED <<standaloneVars,
                   comp, pageVars, command, runs, service, addons, backups, configured>>

\* update_config: add ODOO_ADDONS to addons_path if the file lacks it.
update_config(ok) ==
    /\ At("update_config", "")
    /\ IF configured THEN UNCHANGED configured /\ Advance
       ELSE IF ok THEN configured' = TRUE /\ Advance
                  ELSE UNCHANGED configured /\ Abort
    /\ UNCHANGED <<standaloneVars,
                   comp, pageVars, command, runs, service, addons, temp, backups>>

\* start_odoo: systemctl start, sleep 5, exit 1 unless the service is active.
start_odoo(ok) ==
    /\ At("start_odoo", "")
    /\ IF ok THEN service' = "active" /\ Advance
             ELSE UNCHANGED service /\ Abort
    /\ UNCHANGED <<standaloneVars,
                   comp, pageVars, command, runs, addons, temp, backups, configured>>

\* health_check: return 1 if the service is not active.
health_check ==
    /\ At("health_check", "")
    /\ IF service = "active" THEN Advance ELSE Abort
    /\ UNCHANGED <<standaloneVars,
                   comp, pageVars, command, runs, service, addons, temp, backups, configured>>

\* update_modules: prints the update instructions.
update_modules ==
    /\ At("update_modules", "")
    /\ Advance
    /\ UNCHANGED <<standaloneVars,
                   comp, pageVars, command, runs, service, addons, temp, backups, configured>>

\* quick_deploy in a git work tree: git fetch, git reset --hard origin/BRANCH.
quick_deploy_reset(ok) ==
    /\ At("quick_deploy", "reset")
    /\ IF ok THEN addons' = [m \in DOMAIN addons |-> Repository] /\ Advance
             ELSE UNCHANGED addons /\ Abort
    /\ UNCHANGED <<standaloneVars,
                   comp, pageVars, command, runs, service, temp, backups, configured>>

\* rollback: exit 1 if BACKUP_DIR has no archive.
rollback_find ==
    /\ At("rollback", "find")
    /\ IF Len(backups) = 0 THEN Abort ELSE Advance
    /\ UNCHANGED <<standaloneVars,
                   comp, pageVars, command, runs, service, addons, temp, backups, configured>>

\* rollback: rm -rf every module directory.
rollback_remove ==
    /\ At("rollback", "remove")
    /\ addons' = [m \in DOMAIN addons |-> IF m \in Modules THEN Absent ELSE addons[m]]
    /\ Advance
    /\ UNCHANGED <<standaloneVars,
                   comp, pageVars, command, runs, service, temp, backups, configured>>

\* rollback: tar -xzf LATEST_BACKUP -C ODOO_ADDONS.
rollback_extract(ok) ==
    /\ At("rollback", "extract")
    /\ IF ok
       THEN /\ addons' = [m \in DOMAIN addons |->
                             IF m \in Modules /\ backups[Len(backups)].files[m] # Absent
                             THEN backups[Len(backups)].files[m] ELSE addons[m]]
            /\ Advance
       ELSE UNCHANGED addons /\ Abort
    /\ UNCHANGED <<standaloneVars,
                   comp, pageVars, command, runs, service, temp, backups, configured>>

\* rollback: chown -R.
rollback_chown(ok) ==
    /\ At("rollback", "chown")
    /\ IF ok THEN Advance ELSE Abort
    /\ UNCHANGED <<standaloneVars,
                   comp, pageVars, command, runs, service, addons, temp, backups, configured>>

--------------------------------------------------------------------------
(* Specification *)

Init ==
    /\ comp \in Components
    /\ phase = "setup"
    /\ loading = (comp \in HasLoadingFlag)
    /\ data = InitialData(comp)
    /\ inv = <<>>
    /\ charts = [c \in ChartNames |-> NoChart]
    /\ timeouts = {}
    /\ timers = SetupTimers(comp)
    /\ mountRendered = FALSE
    /\ now = 0
    /\ fm = NoFilters
    /\ ad = NoDashboard
    /\ cm = [hasUpdateChart |-> FALSE, charts |-> [id \in ChartIds |-> "none"]]
    /\ lastOwner = "page"
    /\ sf \in (IF comp # Analytics THEN {NoSaved}
               ELSE { [NoSaved EXCEPT !.storage[n] = e] :
                        n \in SavedNames,
                        e \in { [saved |-> FALSE, filters |-> NoFilters],
                                [saved |-> TRUE,
                                 filters |-> [department |-> "HR", status |-> ""]] } })
    /\ command = "none"
    /\ pc = 0
    /\ exitCode = -1
    /\ runs = 0
    /\ service = "inactive"
    /\ addons = [m \in Modules \cup {".git"} |-> Absent]
    /\ temp = {}
    /\ backups = <<>>
    /\ configured = FALSE
    /\ log = <<>>
    /\ td = NoTazweed
    /\ form = NoForm
    /\ expiry = NoExpiry

Next ==
    \/ WillStart
    \/ Mounted
    \/ \E started \in SUBSET TimerSites : PageLoad(started)
    \/ \E op \in UserOps(comp) : UserEvent(op)
    \/ \E site \in TimerSites : Tick(site)
    \/ \E i \in 1..Len(inv) :
          \E e \in inv[i].inflight, ok \in BOOLEAN :
             \E p \in (IF ok THEN Payloads(comp) ELSE {NullPayload}) :
                Respond(i, e, ok, p)
    \/ \E i \in 1..MaxInv : Continue(i)
    \/ \E t \in 0..MaxInv : Timeout(t)
    \/ Unmount
    \/ Destroy
    \/ ClockTick
    \/ \E hasUpdate \in BOOLEAN : AnalyticsLoad(hasUpdate)
    \/ \E op \in {"applyDepartmentFilter", "applyStatusFilter", "resetFilters"},
          v \in FilterValues : FilterOp(op, v)
    \/ \E name \in SavedNames : saveFilters(name)
    \/ \E name \in SavedNames : selectSaved(name)
    \/ \E op \in {"refreshDashboard", "changePeriod"} : DashboardOp(op)
    \/ \E site \in TimerSites, done \in BOOLEAN : AnalyticsTick(site, done)
    \/ RefreshTimeout

Spec == Init /\ [][Next]_vars

\* A server before the script runs: any of the directories may exist, and
\* BACKUP_DIR may hold the archive of an earlier deployment.
InitDeploy ==
    /\ comp = "deploy.sh"
    /\ phase = "setup"
    /\ loading = FALSE
    /\ data = [none |-> 0]
    /\ inv = <<>>
    /\ charts = [c \in ChartNames |-> NoChart]
    /\ timeouts = {}
    /\ timers = {}
    /\ mountRendered = FALSE
    /\ now = 0
    /\ fm = NoFilters
    /\ ad = NoDashboard
    /\ cm = [hasUpdateChart |-> FALSE, charts |-> [id \in ChartIds |-> "none"]]
    /\ lastOwner = "page"
    /\ sf = NoSaved
    /\ command = "none"
    /\ pc = 0
    /\ exitCode = -1
    /\ runs = 0
    /\ service \in {"active", "inactive"}
    /\ addons \in [Modules \cup {".git"} -> {Absent, Installed}]
    /\ temp = {}
    /\ backups \in {<<>>, <<Archive(0, [m \in Modules |-> Older])>>}
    /\ configured \in BOOLEAN
    /\ log = <<>>
    /\ td = NoTazweed
    /\ form = NoForm
    /\ expiry = NoExpiry

NextDeploy ==
    \/ \E cmd \in Commands : Run(cmd)
    \/ \E root \in BOOLEAN : check_root(root)
    \/ \E ok \in BOOLEAN : pre_checks(ok)
    \/ \E written \in BOOLEAN : create_backup(written)
    \/ \E ok \in BOOLEAN : stop_odoo(ok)
    \/ \E ok \in BOOLEAN, found \in SUBSET Modules : deploy_code_clone(ok, found)
    \/ \E m \in Modules, ok \in BOOLEAN : deploy_code_module(m, ok)
    \/ \E ok \in BOOLEAN : deploy_code_permissions(ok)
    \/ \E ok \in BOOLEAN : update_config(ok)
    \/ \E ok \in BOOLEAN : start_odoo(ok)
    \/ health_check
    \/ update_modules
    \/ \E ok \in BOOLEAN : quick_deploy_reset(ok)
    \/ rollback_find
    \/ rollback_remove
    \/ \E ok \in BOOLEAN : rollback_extract(ok)
    \/ \E ok \in BOOLEAN : rollback_chown(ok)

SpecDeploy == InitDeploy /\ [][NextDeploy]_vars

\* The pages and deploy.sh, for the specifications that run neither.
Idle ==
    /\ phase = "setup"
    /\ loading = FALSE
    /\ data = [none |-> 0]
    /\ inv = <<>>
    /\ charts = [c \in ChartNames |-> NoChart]
    /\ timeouts = {}
    /\ timers = {}
    /\ mountRendered = FALSE
    /\ now = 0
    /\ fm = NoFilters
    /\ ad = NoDashboard
    /\ cm = [hasUpdateChart |-> FALSE, charts |-> [id \in ChartIds |-> "none"]]
    /\ lastOwner = "page"
    /\ sf = NoSaved
    /\ command = "none"
    /\ pc = 0
    /\ exitCode = -1
    /\ runs = 0
    /\ service = "inactive"
    /\ addons = [m \in Modules \cup {".git"} |-> Absent]
    /\ temp = {}
    /\ backups = <<>>
    /\ configured = FALSE
    /\ log = <<>>

\* The action of tazweed_dashboard.js opens on a page whose Chart.js is of
\* either kind and whose template binds the six refs or none.
InitTazweed ==
    /\ comp = "TazweedDashboard (tazweed_dashboard.js)"
    /\ Idle
    /\ \E reuse \in {"stacks", "throws"}, refs \in {TdCanvases, {}} :
          td = [NoTazweed EXCEPT !.phase = "setup", !.reuse = reuse, !.refs = refs]
    /\ form = NoForm
    /\ expiry = NoExpiry

NextTazweed ==
    \/ TdWillStart
    \/ \E i \in 1..(MaxRefresh + 1), employees \in EmployeeLists :
          TdLoadSucceeds(i, employees)
    \/ \E i \in 1..(MaxRefresh + 1) : TdLoadFails(i)
    \/ TdMounted
    \/ TdRefreshData
    \/ \E i \in 1..(MaxRefresh + 1) : TdRefreshRenders(i)

SpecTazweed == InitTazweed /\ [][NextTazweed]_vars

\* A page of the employee portal as the server rendered it: the two date
\* inputs, inside a form or not, with any values.
InitForms ==
    /\ comp = "portal.js forms"
    /\ Idle
    /\ td = NoTazweed
    /\ expiry = NoExpiry
    /\ \E inForm \in BOOLEAN, from \in DateValues, to \in DateValues :
          form = [NoForm EXCEPT !.inForm = inForm, !.date_from = from, !.date_to = to]

NextForms ==
    \E name \in {"date_from", "date_to"}, value \in DateValues : ChangeDate(name, value)

SpecForms == InitForms /\ [][NextForms]_vars

\* A document row with any days-to-expiry value, not drawn yet.
InitExpiry ==
    /\ comp = "document_dashboard.js expiry status"
    /\ Idle
    /\ td = NoTazweed
    /\ form = NoForm
    /\ \E days \in DaysValues : expiry = [NoExpiry EXCEPT !.days = days]

NextExpiry ==
    \/ ShowExpiry
    \/ \E days \in DaysValues : ChangeExpiry(days)

SpecExpiry == InitExpiry /\ [][NextExpiry]_vars

--------------------------------------------------------------------------
(* Claims *)

\* C1: whenever every invocation of a dashboard's load operations has
\* finished, by success, by a throw or by a failed RPC, the loading flag
\* is false.
C1_LoadingClearedWhenAllDone ==
    (comp \in HasLoadingFlag /\ AllDone) => loading = FALSE

\* C1 witness: a refresh that followed the initial load has failed and every
\* invocation has finished.
C1_Witness ==
    /\ comp \in HasLoadingFlag
    /\ AllDone
    /\ Len(inv) >= 2
    /\ \E i \in 2..Len(inv) : inv[i].failed

\* C2 (as claimed): the step in which the RPC of a load fails leaves the data
\* fields at their initial default values, also after an earlier successful
\* load.
C2_FailedLoadLeavesDefaults ==
    [][(comp \in OwlDashboards) =>
         (\A i \in 1..Len(inv) :
            (inv[i].pc = "rpc" /\ inv'[i].loadDone /\ inv'[i].failed)
                => data' = DefaultData)]_vars

\* C3 (as claimed): no invocation of a load function has two requests in
\* flight.
C3_OneRequestInFlight ==
    \A i \in 1..Len(inv) : Cardinality(inv[i].inflight) <= 1

\* C3 (amended): an invocation has at most one request in flight, and has
\* sent request k+1 only when requests 1..k were answered; except
\* WorkflowDashboard.loadDashboardData, whose three fetches go out together.
C3_OneInFlightExceptWorkflowLoad ==
    \A i \in 1..Len(inv) :
        IF comp = Workflow /\ inv[i].op = "loadDashboardData"
        THEN Cardinality(inv[i].inflight) <= 3
        ELSE /\ Cardinality(inv[i].inflight) <= 1
             /\ inv[i].inflight # {} => inv[i].inflight = {inv[i].sent[Len(inv[i].sent)]}

\* C3 witness: an invocation with several requests has sent its third
\* request and waits for that one alone.
C3_Witness ==
    /\ comp = Core
    /\ Len(inv) = 1
    /\ Len(inv[1].sent) = 3
    /\ Cardinality(inv[1].inflight) = 1

\* C4: an invocation sends each of its requests at most once, in program
\* order, whatever fails; a request to an endpoint that failed goes out again
\* only in a new invocation, and every invocation is started by a hook, a
\* user event, a timer tick or the success of an approve or reject.
C4_NoAutomaticRetry ==
    \A i \in 1..Len(inv) :
        /\ Len(inv[i].sent) <= Len(Requests(comp, inv[i].op))
        /\ inv[i].sent = SubSeq(Requests(comp, inv[i].op), 1, Len(inv[i].sent))
        /\ inv[i].src \in {"hook", "user", "timer", "success"}
        /\ inv[i].src = "success" =>
              \E j \in 1..(i - 1) : IsCommand(inv[j].sent[1]) /\ ~inv[j].failed
                                    /\ inv[j].pc = "done"

\* C4 witness: a request has failed, its invocation is over, and a later
\* timer tick has sent a request to the same endpoint.
C4_Witness ==
    \E i, j \in 1..Len(inv) :
        /\ i < j
        /\ inv[i].failed
        /\ inv[i].pc = "done"
        /\ inv[j].src = "timer"
        /\ inv[j].sent[1] = inv[i].sent[Len(inv[i].sent)]

\* C5 (as claimed): every chart on a canvas shows the payload rows it was
\* drawn for: label j and value j are the name and the amount of row j.
C5_ChartsMatchPayload ==
    \A c \in ChartNames :
        charts[c].kind = "chart" =>
            /\ charts[c].labels = [j \in 1..Len(charts[c].from) |-> charts[c].from[j].name]
            /\ charts[c].values = [j \in 1..Len(charts[c].from) |-> charts[c].from[j].amount]

\* C6: charts are drawn by onMounted only after the initial load has
\* finished, and by an event's handler only after the load that event
\* started has finished.
C6_RenderAfterLoad ==
    comp \in OwlDashboards =>
        /\ mountRendered => inv[1].loadDone
        /\ \A i \in 1..Len(inv) : inv[i].rendered => inv[i].loadDone

\* C6 witness: the charts were drawn on mount and again by a later event.
C6_Witness ==
    /\ comp \in OwlDashboards
    /\ mountRendered
    /\ \E i \in 2..Len(inv) : inv[i].rendered

\* C7 (as claimed): once the component is unmounted or destroyed none of its
\* timers is left to fire.
C7_NoTimerAfterDestroy ==
    phase = "destroyed" => timers = {}

C9_AllTimersPoll ==
    \A site \in timers :
        /\ Period(site) >= 5000
        /\ Period(site) <= 300000
        /\ PollsData(site)

\* C9 (amended): every active timer whose callback polls or reloads data has
\* a period of 5 s to 5 min; the other timers are the clock of the
\* attendance page and the KPI animation, with shorter periods.
C9_PollingTimersInRange ==
    \A site \in timers :
        IF PollsData(site)
        THEN Period(site) >= 5000 /\ Period(site) <= 300000
        ELSE /\ site \in {"portal.initAttendance", "AnalyticsDashboard.animateValue"}
             /\ Period(site) < 5000

\* C9 witness: the employee portal runs its polling timer and its clock
\* timer.
C9_Witness ==
    /\ comp = EmpPortal
    /\ timers = {"portal.initDashboard", "portal.initAttendance"}
    /\ data.timeDisplay = 1

\* C10: the module directories change only in a run that has stopped the
\* service and not yet started it, while the service is inactive; in deploy
\* the functions run in the order create_backup, stop_odoo, deploy_code,
\* update_config, start_odoo.
C10_ModulesChangeOnlyWhileStopped ==
    [][/\ (\E m \in Modules : addons'[m] # addons[m]) =>
             /\ service = "inactive"
             /\ "stop_odoo" \in Completed
             /\ "start_odoo" \notin Completed
       /\ (command = "deploy" /\ pc > 0) =>
             /\ Current[1] = "stop_odoo" => "create_backup" \in Completed
             /\ Current[1] = "deploy_code" => "stop_odoo" \in Completed
             /\ Current[1] = "update_config" => "deploy_code" \in Completed
             /\ Current[1] = "start_odoo" => "update_config" \in Completed]_vars

\* C10 witness: a deploy has ended with status 0, the modules hold the
\* repository's version and the service is active again.
C10_Witness ==
    /\ command = "deploy"
    /\ pc = 0
    /\ exitCode = 0
    /\ service = "active"
    /\ \A m \in Modules : addons[m] = Repository

\* C11 (as claimed): every module directory that deploy_code removes in a
\* deploy run is held, with the contents it has then, by an archive that
\* create_backup wrote earlier in the same run.
C11_RemovedModulesWereBackedUp ==
    [][\A m \in Modules :
          (command = "deploy" /\ At("deploy_code", m) /\ pc' # pc
              /\ m \in temp /\ addons[m] # Absent)
          => \E j \in 1..Len(backups) :
                /\ backups[j].stamp = runs
                /\ backups[j].files[m] = addons[m]]_vars

\* C12 (as claimed): when a rollback has ended with status 0 directly after
\* a deploy that ended with status 0, every module directory has the contents
\* it had before that deploy.
C12_RollbackRestoresPrevious ==
    (/\ Len(log) >= 2
     /\ log[Len(log)].command = "rollback"
     /\ log[Len(log)].exitCode = 0
     /\ log[Len(log) - 1].command = "deploy"
     /\ log[Len(log) - 1].exitCode = 0)
    => \A m \in Modules : addons[m] = log[Len(log) - 1].before[m]

\* C13 (as claimed): whatever refreshData has run, no canvas of the
\* TazweedDashboard of tazweed_dashboard.js has more than one live Chart
\* instance.
C13_OneLiveChartPerCanvas ==
    \A c \in TdCanvases : td.live[c] <= 1

\* C14: from its construction until destroy() the WorkflowDashboard has its
\* one auto-refresh timer, which calls loadDashboardData every 5000 ms; once
\* destroy() has run no timer starts a loadDashboardData again.
C14_OneAutoRefreshUntilDestroy ==
    /\ [](comp = Workflow /\ phase = "mounted" =>
            /\ timers = {"WorkflowDashboard.startAutoRefresh"}
            /\ \A t \in timers : TimerOp(t) = "loadDashboardData" /\ Period(t) = 5000)
    /\ [][(comp = Workflow /\ phase = "destroyed") =>
            ~(Len(inv') > Len(inv) /\ inv'[Len(inv')].src = "timer")]_vars

\* C14 witness: the timer has started a load, then destroy() has run.
C14_Witness ==
    /\ comp = Workflow
    /\ phase = "destroyed"
    /\ timers = {}
    /\ \E i \in 1..Len(inv) : inv[i].src = "timer" /\ inv[i].op = "loadDashboardData"

\* C15 (as claimed): once every initDashboard of the client portal has
\* finished and the KPI animations have run, no KPI card shows the loading
\* skeleton, however the fetch ended.
C15_NoSkeletonAfterInit ==
    (comp = ClientDash /\ Len(inv) >= 1 /\ AllDone /\ timeouts = {})
        => ~data.skeleton

\* C16 (as claimed): selecting a saved filter name makes activeFilters the set
\* stored under that name, and applying or resetting filters changes no
\* saved filter set.
C16_SavedFiltersAreStable ==
    [][/\ (sf'.op = "selectSaved" /\ sf' # sf) => fm' = sf'.storage[sf'.alias].filters
       /\ (sf'.op \in {"applyDepartmentFilter", "applyStatusFilter", "resetFilters"})
             => sf'.storage = sf.storage]_vars

\* C17: once validateDateRange has handled a change in a form whose date_from
\* and date_to are both filled in, date_to is not before date_from; a
\* date_to that was earlier has been replaced by date_from and reported.
C17_DateRangeOrdered ==
    /\ [](form.handled /\ form.inForm /\ form.date_from # 0 /\ form.date_to # 0
            => form.date_to >= form.date_from)
    /\ [][\A name \in {"date_from", "date_to"}, value \in DateValues :
            (/\ form.inForm /\ form[name] # value
             /\ LET typed == [form EXCEPT ![name] = value]
                IN  typed.date_from # 0 /\ typed.date_to # 0
                      /\ typed.date_to < typed.date_from
                      /\ form' = validateDateRange(typed))
            => (form'.date_to = form'.date_from /\ form'.notified)]_vars

\* C17 witness: an end date before the start date has been entered and
\* replaced.
C17_Witness ==
    /\ form.handled /\ form.inForm /\ form.notified
    /\ form.date_from = 5 /\ form.date_to = 5

\* C18: getExpiryStatusClass and getExpiryStatusColor put a days value in the
\* same one of the five buckets (below 0 expired/red, 0..7 critical/orange,
\* 8..15 warning/yellow, 16..30 attention/blue, above 30 valid/green), and
\* the copies of the two functions return what the originals return.
C18_ExpiryBucketsAgree ==
    LET n == expiry.days.n
        Bucket == CASE n < 0 -> <<"expired", "#dc3545">>
                    [] n \in 0..7 -> <<"critical", "#fd7e14">>
                    [] n \in 8..15 -> <<"warning", "#ffc107">>
                    [] n \in 16..30 -> <<"attention", "#17a2b8">>
                    [] OTHER -> <<"valid", "#28a745">>
        Pairs == {<<"expired", "#dc3545">>, <<"critical", "#fd7e14">>,
                  <<"warning", "#ffc107">>, <<"attention", "#17a2b8">>,
                  <<"valid", "#28a745">>}
    IN  expiry.shown =>
          /\ <<expiry.class, expiry.color>> \in Pairs
          /\ expiry.days.isNumber => <<expiry.class, expiry.color>> = Bucket
          /\ expiry.classCopy = expiry.class
          /\ expiry.colorCopy = expiry.color

\* C18 witness: a row on the bucket boundary of 15 days is drawn as a warning.
C18_Witness ==
    /\ expiry.shown
    /\ expiry.days = [isNumber |-> TRUE, n |-> 15]
    /\ expiry.class = "warning"
    /\ expiry.color = "#ffc107"

\* C19: once a load of the TazweedDashboard of tazweed_dashboard.js has
\* succeeded, the visa-status counts, the placement-status counts and the
\* department counts each sum to totalEmployees.
C19_ChartCountsSumToTotal ==
    LET v == td.state.visaStatusData
        q == td.state.placementData
        d == td.state.departmentData
    IN  td.succeeded > 0 =>
          /\ v["valid"] + v["expired"] + v["cancelled"] + v["in_process"]
                = td.state.totalEmployees
          /\ q["available"] + q["placed"] + q["on_leave"] + q["resigned"]
                = td.state.totalEmployees
          /\ d["Operations"] + d["Unassigned"] = td.state.totalEmployees

\* C19 witness: a load has counted two employees, one without a visa status
\* or with an unknown one.
C19_Witness ==
    /\ td.succeeded > 0
    /\ td.state.totalEmployees = 2
    /\ td.state.visaStatusData["valid"] = 1
    /\ td.state.visaStatusData["expired"] = 1
    /\ td.state.placementData["available"] = 1
    /\ td.state.placedEmployees = 0
    /\ td.state.departmentData["Unassigned"] = 2

\* C20 (as claimed): the UAE-national percentage that the TazweedDashboard of
\* dashboard.js displays is an integer between 0 and 100, and 0 when the
\* employee count is 0, although the two counts come from separate
\* searchCount calls.
C20_UaePercentageInRange ==
    comp = Core =>
        /\ uaePercentage(data) \in 0..100
        /\ (data.totalEmployees = 0 => uaePercentage(data) = 0)
====
